---- MODULE Spec2Model ----
(***************************************************************************)
(* InsightFlow: the research pipeline graph of insightflow_core/graph.py.  *)
(* One session of the compiled StateGraph: the shared AgentState, the      *)
(* seven nodes, the conditional routers, the interrupt before              *)
(* human_response, and the three loops (research, analysis retry,          *)
(* revision).  Collaborators (model calls, search, sandbox) are inputs     *)
(* chosen nondeterministically from small sets.                            *)
(***************************************************************************)
EXTENDS Integers, Sequences, FiniteSets, TLC

VARIABLES
    state,      \* the merged AgentState: a function from the fields present to values
    pc,         \* the node that runs next (or END)
    status,     \* "running" | "paused" | "completed" | "aborted"
    routed,     \* the next-node name chosen after the last executed node
    last,       \* what the last executed node read and returned
    runs,       \* number of executions of planner, writer and reviewer
    loop        \* the research loop since the last planner pass: hyp, whether that
                \* pass planned n >= 1 steps, all pending, and every researcher
                \* execution since completed one; runs, their number while hyp

vars == <<state, pc, status, routed, last, runs, loop>>

\* ------------------------------------------------------------------ bounds
MaxPlan == 2        \* longest plan the planning model returns
MaxPauses == 1      \* resumes of a paused session that are explored

\* --------------------------------------------------------------- constants
NoneVal == "None"
END == "__end__"
NoRoute == "-"

\* the channels with a reducer, without messages
AppendFields_without_messages ==
    {"research_findings", "raw_data_context", "code_snippets", "code_outputs",
     "figure_paths"}

\* state.py: the AgentState channels
AppendFields ==
    {"research_findings", "raw_data_context", "code_snippets", "code_outputs",
     "figure_paths", "messages"}

AgentStateFields ==
    {"original_task", "clarified_task", "clarification_questions",
     "clarification_answers", "metadata", "plan", "current_step_index",
     "last_step_success", "running_summary", "draft_report", "review_comments",
     "review_status", "revision_count"} \cup AppendFields

\* state.get(k, d)
Get(s, k, d) == IF k \in DOMAIN s THEN s[k] ELSE d

\* Python truthiness of an Optional[str]
FalsyStr(x) == x = NoneVal \/ x = ""

\* A node's partial update merged into the state: channels with operator.add
\* concatenate (old first), the others take the update's value; keys that are
\* no channel of AgentState have nowhere to go and are not merged.
Merge(s, u) ==
    LET ks == DOMAIN u \cap AgentStateFields
    IN  [k \in (DOMAIN s) \cup ks |->
            IF k \in ks
            THEN IF k \in AppendFields THEN Get(s, k, <<>>) \o u[k] ELSE u[k]
            ELSE s[k]]

EmptyUpdate == [k \in {} |-> NoneVal]

\* what a node execution produced
\* (raised: an exception left the node; idx: the plan index it worked on;
\* calls: sandbox calls it made; outcomes: the attempts it consumed;
\* path: the return statement it took)
Returned(u) ==
    [raised |-> FALSE, ret |-> u, idx |-> -1, calls |-> 0, outcomes |-> <<>>, path |-> "return"]
Raised ==
    [raised |-> TRUE, ret |-> EmptyUpdate, idx |-> -1, calls |-> 0, outcomes |-> <<>>,
     path |-> "raise"]

\* ----------------------------------------------------------------- routers
\* graph.py route_clarification
route_clarification(s) ==
    IF ~FalsyStr(Get(s, "clarified_task", NoneVal)) THEN "planner" ELSE "human_response"

\* graph.py analysis_keywords: the descriptions the planning model may return,
\* and those among them that contain one of the keywords
Descriptions == {"summarize sources", "plot chart"}
ContainsAnalysisKeyword(d) == d = "plot chart"

\* route_research_to_next leaving the research loop on 'failed' steps too
route_research_to_next_failed_is_done(s) ==
    LET plan == Get(s, "plan", <<>>)
        all_done == \A i \in DOMAIN plan : plan[i].status \in {"completed", "failed"}
        has_context == Get(s, "raw_data_context", <<>>) # <<>>
        needs_analysis == \E i \in DOMAIN plan : ContainsAnalysisKeyword(plan[i].description)
    IN  IF ~all_done THEN "researcher"
        ELSE IF has_context /\ needs_analysis THEN "analyst"
        ELSE "writer"

\* route_research_to_next sending any gathered context to the analyst
route_research_to_next_any_context(s) ==
    LET plan == Get(s, "plan", <<>>)
        all_completed == \A i \in DOMAIN plan : plan[i].status = "completed"
        has_context == Get(s, "raw_data_context", <<>>) # <<>>
    IN  IF ~all_completed THEN "researcher"
        ELSE IF has_context THEN "analyst"
        ELSE "writer"

\* graph.py route_research_to_next
route_research_to_next(s) ==
    LET plan == Get(s, "plan", <<>>)
        all_completed == \A i \in DOMAIN plan : plan[i].status = "completed"
        has_context == Get(s, "raw_data_context", <<>>) # <<>>
        needs_analysis == \E i \in DOMAIN plan : ContainsAnalysisKeyword(plan[i].description)
    IN  IF ~all_completed THEN "researcher"
        ELSE IF has_context /\ needs_analysis THEN "analyst"
        ELSE "writer"

\* route_analyst_to_next sending a failed analysis back to the researcher
route_analyst_to_next_by_success(s) ==
    IF Get(s, "last_step_success", TRUE) THEN "writer" ELSE "researcher"

\* graph.py route_analyst_to_next, route_writer_next
route_analyst_to_next(s) == "writer"
route_writer_next(s) == "reviewer"

\* route_review with the cap compared by > instead of >=
route_review_cap_off_by_one(s) ==
    IF Get(s, "revision_count", 0) > 3 THEN "end"
    ELSE IF Get(s, "review_status", NoneVal) = "approve" THEN "end"
    ELSE "planner"

\* route_review going back to the planner on 'reject' only
route_review_reject_only(s) ==
    IF Get(s, "revision_count", 0) >= 3 THEN "end"
    ELSE IF Get(s, "review_status", NoneVal) = "reject" THEN "planner"
    ELSE "end"

\* route_review ignoring the review's verdict below the cap
route_review_ignores_approve(s) ==
    IF Get(s, "revision_count", 0) >= 3 THEN "end"
    ELSE "planner"

\* graph.py route_review
route_review(s) ==
    IF Get(s, "revision_count", 0) >= 3 THEN "end"
    ELSE IF Get(s, "review_status", NoneVal) = "approve" THEN "end"
    ELSE "planner"

\* the reviewer's 'planner' branch wired to the writer: a rejected draft is
\* rewritten without re-planning
NextNode_reject_to_writer(node, s) ==
    CASE node = "clarifier" -> route_clarification(s)
      [] node = "human_response" -> "clarifier"
      [] node = "planner" -> "researcher"
      [] node = "researcher" -> route_research_to_next(s)
      [] node = "analyst" -> route_analyst_to_next(s)
      [] node = "writer" -> route_writer_next(s)
      [] node = "reviewer" -> (IF route_review(s) = "end" THEN END ELSE "writer")

\* graph.py create_graph: static edges, conditional edges with their mappings
NextNode(node, s) ==
    CASE node = "clarifier" -> route_clarification(s)
      [] node = "human_response" -> "clarifier"
      [] node = "planner" -> "researcher"
      [] node = "researcher" -> route_research_to_next(s)
      [] node = "analyst" -> route_analyst_to_next(s)
      [] node = "writer" -> route_writer_next(s)
      [] node = "reviewer" -> (IF route_review(s) = "end" THEN END ELSE "planner")

\* graph.py create_graph, add_node: the declared steps
Nodes == {"clarifier", "human_response", "planner", "researcher", "analyst", "writer",
          "reviewer"}

\* graph.py create_graph, add_edge: the static edges (START's edge included)
StaticEdges ==
    ("START" :> "clarifier") @@ ("human_response" :> "clarifier") @@ ("planner" :> "researcher")

\* the candidate mappings with the researcher's own key left out
ConditionalEdges_without_loop_key ==
    ("clarifier" :> (("human_response" :> "human_response") @@ ("planner" :> "planner")))
    @@ ("researcher" :> (("analyst" :> "analyst") @@ ("writer" :> "writer")))
    @@ ("analyst" :> ("writer" :> "writer"))
    @@ ("writer" :> ("reviewer" :> "reviewer"))
    @@ ("reviewer" :> (("planner" :> "planner") @@ ("end" :> END)))

\* graph.py create_graph, add_conditional_edges: each source's candidate mapping
ConditionalEdges ==
    ("clarifier" :> (("human_response" :> "human_response") @@ ("planner" :> "planner")))
    @@ ("researcher" :> (("analyst" :> "analyst") @@ ("writer" :> "writer")
                         @@ ("researcher" :> "researcher")))
    @@ ("analyst" :> ("writer" :> "writer"))
    @@ ("writer" :> ("reviewer" :> "reviewer"))
    @@ ("reviewer" :> (("planner" :> "planner") @@ ("end" :> END)))

\* graph.py create_graph, add_conditional_edges: the router attached to a source
RouterKey(node, s) ==
    CASE node = "clarifier" -> route_clarification(s)
      [] node = "researcher" -> route_research_to_next(s)
      [] node = "analyst" -> route_analyst_to_next(s)
      [] node = "writer" -> route_writer_next(s)
      [] node = "reviewer" -> route_review(s)

\* the planner listed in interrupt_before as well
InterruptBefore_with_planner == {"human_response", "planner"}

\* graph.py create_graph: compile(interrupt_before=["human_response"])
InterruptBefore == {"human_response"}

\* ------------------------------------------------------------------- nodes
\* clarifier.py clarifier_node; llm is the model call's outcome:
\* "raise", or the stripped text it returned ("" or a text)
ClarifierOutcomes == {"raise", "", "text"}
clarifier_node(s, llm) ==
    IF ~FalsyStr(Get(s, "clarified_task", NoneVal)) THEN Returned(EmptyUpdate)
    ELSE IF llm = "raise" THEN Raised
    ELSE IF ~FalsyStr(Get(s, "clarification_answers", NoneVal))
    THEN Returned(("clarified_task" :> llm) @@ ("messages" :> <<"goal">>))
    ELSE Returned(("clarification_questions" :> (IF llm = "" THEN <<>> ELSE <<"q">>))
                  @@ ("messages" :> <<"clarify">>))

\* graph.py human_response_node
human_response_node(s) == Returned(EmptyUpdate)

\* planner.py PlanSchema: what the planning model may return
Statuses == {"pending", "completed"}
\* (ids "starting from 1", in order; an analysis step, if any, comes last)
PlanOutputs ==
    UNION {{[i \in 1..n |-> [id |-> i,
                             description |-> IF i = n THEN d ELSE "summarize sources",
                             status |-> st[i]]]
            : d \in Descriptions, st \in [1..n -> Statuses]}
           : n \in 0..MaxPlan}
PlannerOutcomes ==
    {[ok |-> FALSE, steps |-> <<>>]} \cup {[ok |-> TRUE, steps |-> p] : p \in PlanOutputs}

\* planner.py planner_node, line 134: the prefixes removed from a description
\* ("Rewrite: ", "Review: ", "Task: ", ...), on the descriptions offered
clean_description(d) == IF d = "Rewrite: plot chart" THEN "plot chart" ELSE d

\* planner.py planner_node, lines 213-224: the PlanStep stored for a returned step
NewPlanStep(step) ==
    [id |-> step.id, description |-> clean_description(step.description),
     status |-> step.status,
     result |-> NoneVal, generated_code |-> NoneVal, figure_path |-> NoneVal]

\* planner_node without its except block: a failure leaves the node
planner_node_propagates(s, llm) ==
    IF llm.ok
    THEN Returned(("plan" :> [i \in DOMAIN llm.steps |-> NewPlanStep(llm.steps[i])])
                  @@ ("current_step_index" :> 0)
                  @@ ("last_step_success" :> TRUE)
                  @@ ("revision_count" :> Get(s, "revision_count", 0) + 1))
    ELSE Raised

\* planner.py planner_node; llm.ok is FALSE when the model call, the parsing, the
\* validation or a note operation raised (all inside the one try block)
planner_node(s, llm) ==
    IF llm.ok
    THEN Returned(("plan" :> [i \in DOMAIN llm.steps |-> NewPlanStep(llm.steps[i])])
                  @@ ("current_step_index" :> 0)
                  @@ ("last_step_success" :> TRUE)
                  @@ ("revision_count" :> Get(s, "revision_count", 0) + 1))
    ELSE [Returned(("plan" :> <<>>)
                  @@ ("current_step_index" :> 0)
                  @@ ("last_step_success" :> FALSE)
                  @@ ("revision_count" :> Get(s, "revision_count", 0)))
            EXCEPT !.path = "fallback"]

\* researcher_node moving the step pointer past a PlanStep whose search failed
researcher_node_skips_failed(s, search) ==
    LET plan == Get(s, "plan", <<>>)
        current_index == Get(s, "current_step_index", 0)
        summary == IF search = "hits" THEN "summary" ELSE ""
    IN  IF current_index >= Len(plan)
        THEN [Returned("last_step_success" :> FALSE) EXCEPT !.idx = current_index, !.path = "bounds"]
        ELSE IF search = "raise"
        THEN [Returned(("last_step_success" :> FALSE)
                       @@ ("current_step_index" :> current_index + 1)
                       @@ ("plan" :> [i \in DOMAIN plan |->
                                        IF i - 1 = current_index
                                        THEN [plan[i] EXCEPT !.status = "failed"]
                                        ELSE plan[i]]))
                EXCEPT !.idx = current_index, !.path = "search_failed"]
        ELSE [Returned(("plan" :> [i \in DOMAIN plan |->
                                        IF i - 1 = current_index
                                        THEN [plan[i] EXCEPT !.status = "completed",
                                                             !.result = summary]
                                        ELSE plan[i]])
                       @@ ("research_findings" :> (IF search = "hits" THEN <<"finding">> ELSE <<>>))
                       @@ ("current_step_index" :> current_index + 1)
                       @@ ("last_step_success" :> TRUE)
                       @@ ("raw_data_context" :> (IF search = "hits" THEN <<"ctx">> ELSE <<>>)))
                EXCEPT !.idx = current_index, !.path = "completed"]

\* researcher_node forgetting to move the step pointer
researcher_node_pointer_stuck(s, search) ==
    LET plan == Get(s, "plan", <<>>)
        current_index == Get(s, "current_step_index", 0)
        summary == IF search = "hits" THEN "summary" ELSE ""
    IN  IF current_index >= Len(plan)
        THEN [Returned("last_step_success" :> FALSE) EXCEPT !.idx = current_index, !.path = "bounds"]
        ELSE IF search = "raise"
        THEN [Returned(("last_step_success" :> FALSE)
                       @@ ("plan" :> [i \in DOMAIN plan |->
                                        IF i - 1 = current_index
                                        THEN [plan[i] EXCEPT !.status = "failed"]
                                        ELSE plan[i]]))
                EXCEPT !.idx = current_index, !.path = "search_failed"]
        ELSE [Returned(("plan" :> [i \in DOMAIN plan |->
                                        IF i - 1 = current_index
                                        THEN [plan[i] EXCEPT !.status = "completed",
                                                             !.result = summary]
                                        ELSE plan[i]])
                       @@ ("research_findings" :> (IF search = "hits" THEN <<"finding">> ELSE <<>>))
                       @@ ("current_step_index" :> current_index)
                       @@ ("last_step_success" :> TRUE)
                       @@ ("raw_data_context" :> (IF search = "hits" THEN <<"ctx">> ELSE <<>>)))
                EXCEPT !.idx = current_index, !.path = "completed"]

\* researcher_node dropping the PlanStep whose search failed
researcher_node_drops_failed(s, search) ==
    LET plan == Get(s, "plan", <<>>)
        current_index == Get(s, "current_step_index", 0)
        summary == IF search = "hits" THEN "summary" ELSE ""
    IN  IF current_index >= Len(plan)
        THEN [Returned("last_step_success" :> FALSE) EXCEPT !.idx = current_index, !.path = "bounds"]
        ELSE IF search = "raise"
        THEN [Returned(("last_step_success" :> FALSE)
                       @@ ("plan" :> SelectSeq(plan, LAMBDA st : st.id # plan[current_index + 1].id)))
                EXCEPT !.idx = current_index, !.path = "search_failed"]
        ELSE [Returned(("plan" :> [i \in DOMAIN plan |->
                                        IF i - 1 = current_index
                                        THEN [plan[i] EXCEPT !.status = "completed",
                                                             !.result = summary]
                                        ELSE plan[i]])
                       @@ ("research_findings" :> (IF search = "hits" THEN <<"finding">> ELSE <<>>))
                       @@ ("current_step_index" :> current_index + 1)
                       @@ ("last_step_success" :> TRUE)
                       @@ ("raw_data_context" :> (IF search = "hits" THEN <<"ctx">> ELSE <<>>)))
                EXCEPT !.idx = current_index, !.path = "completed"]

\* researcher.py researcher_node.  search: "raise" (the try block around the
\* search raised), "empty" (no usable result), "hits" (results with content,
\* summarized to a text: the model's, or the fixed text of the except branch)
SearchOutcomes == {"raise", "empty", "hits"}
researcher_node(s, search) ==
    LET plan == Get(s, "plan", <<>>)
        current_index == Get(s, "current_step_index", 0)
        summary == IF search = "hits" THEN "summary" ELSE ""
    IN  IF current_index >= Len(plan)
        THEN [Returned("last_step_success" :> FALSE) EXCEPT !.idx = current_index, !.path = "bounds"]
        ELSE IF search = "raise"
        THEN [Returned(("last_step_success" :> FALSE)
                       @@ ("plan" :> [i \in DOMAIN plan |->
                                        IF i - 1 = current_index
                                        THEN [plan[i] EXCEPT !.status = "failed"]
                                        ELSE plan[i]]))
                EXCEPT !.idx = current_index, !.path = "search_failed"]
        ELSE [Returned(("plan" :> [i \in DOMAIN plan |->
                                        IF i - 1 = current_index
                                        THEN [plan[i] EXCEPT !.status = "completed",
                                                             !.result = summary]
                                        ELSE plan[i]])
                       @@ ("research_findings" :> (IF search = "hits" THEN <<"finding">> ELSE <<>>))
                       @@ ("current_step_index" :> current_index + 1)
                       @@ ("last_step_success" :> TRUE)
                       @@ ("raw_data_context" :> (IF search = "hits" THEN <<"ctx">> ELSE <<>>)))
                EXCEPT !.idx = current_index, !.path = "completed"]

\* one retry more than the code allows
max_retries_one_more == 2 + 1

\* coder.py coder_node, line 72
max_retries == 2

\* the code text the model returns on attempt a (0-based)
CodeNames == <<"code_0", "code_1", "code_2", "code_3">>
CodeText(a) == IF a + 1 \in DOMAIN CodeNames THEN CodeNames[a + 1] ELSE "code"

\* One attempt's outcome: "llm_raise" (the inference call raised, raw_output
\* not assigned by this attempt), "marker" (code ran, the output holds
\* Traceback/Error/Exception), "ok" (code ran, clean output)
AttemptOutcomes == {"llm_raise", "marker", "ok"}

\* coder.py coder_node, lines 83-114: the retry loop from attempt acc.a on.
\* bound: raw_output has been assigned; escaped: an exception left the loop
\* (the handler reads raw_output, an UnboundLocalError when it is not yet bound)
RECURSIVE RetryLoop(_, _)
RetryLoop(outs, acc) ==
    IF acc.a > max_retries \/ acc.success \/ acc.escaped THEN acc
    ELSE LET o == outs[acc.a + 1]
             used == Append(acc.used, o)
         IN  IF o = "llm_raise"
             THEN IF acc.bound
                  THEN RetryLoop(outs, [acc EXCEPT !.a = @ + 1, !.used = used])
                  ELSE [acc EXCEPT !.escaped = TRUE, !.used = used]
             ELSE IF o = "marker"
             THEN RetryLoop(outs, [acc EXCEPT !.a = @ + 1, !.code = CodeText(acc.a),
                                              !.bound = TRUE, !.calls = @ + 1,
                                              !.used = used])
             ELSE [acc EXCEPT !.code = CodeText(acc.a), !.bound = TRUE, !.calls = @ + 1,
                              !.success = TRUE, !.exec = "out", !.used = used]

LoopStart ==
    [a |-> 0, code |-> "", exec |-> "", bound |-> FALSE, calls |-> 0, success |-> FALSE,
     escaped |-> FALSE, used |-> <<>>]

\* coder.py line 128: (step.get("result", "") + "\n\nAnalysis Result:\n" + out).strip()
AnalysisResult(result, exec) ==
    IF result = "" THEN "Analysis Result:" \o exec
    ELSE result \o " Analysis Result:" \o exec

\* coder.py coder_node.  outs: the attempts' outcomes; fig: os.path.exists(figure_path)
coder_node(s, outs, fig) ==
    LET plan == Get(s, "plan", <<>>)
        current_index == Get(s, "current_step_index", 0) - 1
        step_idx == IF current_index - 1 < 0 THEN 0 ELSE current_index - 1
        run == RetryLoop(outs, LoopStart)
        attempted == [Raised EXCEPT !.idx = step_idx, !.calls = run.calls, !.outcomes = run.used]
    IN  IF step_idx >= Len(plan) THEN [Raised EXCEPT !.idx = step_idx]
        ELSE IF run.escaped THEN attempted
        ELSE IF plan[step_idx + 1].result = NoneVal THEN attempted
        ELSE [Returned(
                 ("plan" :> [i \in DOMAIN plan |->
                     IF i - 1 = step_idx
                     THEN [plan[i] EXCEPT
                             !.generated_code = IF run.success THEN run.code ELSE NoneVal,
                             !.figure_path = IF run.success /\ fig THEN "fig.png" ELSE NoneVal,
                             !.result = AnalysisResult(plan[i].result, run.exec)]
                     ELSE plan[i]])
                 @@ ("code_outputs" :> <<run.exec>>)
                 @@ ("code_snippets" :> <<run.code>>)
                 @@ ("figure_paths" :> (IF run.success /\ fig THEN <<"fig.png">> ELSE <<>>))
                 @@ ("last_step_success" :> run.success))
              EXCEPT !.idx = step_idx, !.calls = run.calls, !.outcomes = run.used]

\* writer.py writer_node.  llm: "raise", or the stripped text the model returned
WriterOutcomes == {"raise", "", "report"}
writer_node(s, llm) ==
    LET plan == Get(s, "plan", <<>>)
        all_completed == \A i \in DOMAIN plan : plan[i].status = "completed"
    IN  IF llm = "raise" THEN Raised
        ELSE Returned(("running_summary" :> llm)
                      @@ ("draft_report" :> (IF all_completed THEN llm ELSE NoneVal)))

\* reviewer.py reviewer_node, line 69: str.lower() on the decisions offered
Lower(d) == IF d = "REJECT" THEN "reject" ELSE d

\* reviewer_node returning the revision_count it read, not incremented
reviewer_node_no_increment(s, llm) ==
    LET draft_report == Get(s, "draft_report", "")
        revision_count == Get(s, "revision_count", 0)
        decision == IF llm.ok THEN Lower(llm.decision) ELSE "approve"
        feedback == IF llm.ok THEN llm.feedback ELSE "Error during review"
    IN  IF revision_count >= 3
        THEN [Returned(("review_status" :> "approve")
                       @@ ("feedback" :> "Max revisions reached. Finalizing report.")
                       @@ ("revision_count" :> revision_count))
                EXCEPT !.path = "forced"]
        ELSE IF FalsyStr(draft_report)
        THEN [Returned(("review_status" :> "approve")
                       @@ ("revision_count" :> revision_count))
                EXCEPT !.path = "empty_draft"]
        ELSE [Returned(("review_status" :> decision)
                       @@ ("feedback" :> feedback)
                       @@ ("revision_count" :> revision_count)
                       @@ ("revision_history" :> <<decision>>))
                EXCEPT !.path = "model"]

\* reviewer_node without the forced approval at the cap: the verdict stands
reviewer_node_cap_keeps_verdict(s, llm) ==
    LET draft_report == Get(s, "draft_report", "")
        revision_count == Get(s, "revision_count", 0) + 1
        decision == IF llm.ok THEN Lower(llm.decision) ELSE "approve"
        feedback == IF llm.ok THEN llm.feedback ELSE "Error during review"
    IN  IF FalsyStr(draft_report)
        THEN [Returned(("review_status" :> "approve")
                       @@ ("revision_count" :> revision_count))
                EXCEPT !.path = "empty_draft"]
        ELSE [Returned(("review_status" :> decision)
                       @@ ("feedback" :> feedback)
                       @@ ("revision_count" :> revision_count)
                       @@ ("revision_history" :> <<decision>>))
                EXCEPT !.path = "model"]

\* reviewer_node without the forced approval at the cap
reviewer_node_without_cap(s, llm) ==
    LET draft_report == Get(s, "draft_report", "")
        revision_count == Get(s, "revision_count", 0) + 1
        decision == IF llm.ok THEN Lower(llm.decision) ELSE "approve"
        feedback == IF llm.ok THEN llm.feedback ELSE "Error during review"
    IN  IF FalsyStr(draft_report)
        THEN [Returned(("review_status" :> "approve")
                       @@ ("revision_count" :> revision_count))
                EXCEPT !.path = "empty_draft"]
        ELSE [Returned(("review_status" :> decision)
                       @@ ("feedback" :> feedback)
                       @@ ("revision_count" :> revision_count)
                       @@ ("revision_history" :> <<decision>>))
                EXCEPT !.path = "model"]

\* reviewer_node whose empty-draft return hands back the count it read
reviewer_node_empty_draft_same_count(s, llm) ==
    LET draft_report == Get(s, "draft_report", "")
        revision_count == Get(s, "revision_count", 0) + 1
        decision == IF llm.ok THEN Lower(llm.decision) ELSE "approve"
        feedback == IF llm.ok THEN llm.feedback ELSE "Error during review"
    IN  IF revision_count >= 3
        THEN [Returned(("review_status" :> "approve")
                       @@ ("feedback" :> "Max revisions reached. Finalizing report.")
                       @@ ("revision_count" :> revision_count))
                EXCEPT !.path = "forced"]
        ELSE IF FalsyStr(draft_report)
        THEN [Returned(("review_status" :> "approve")
                       @@ ("revision_count" :> revision_count - 1))
                EXCEPT !.path = "empty_draft"]
        ELSE [Returned(("review_status" :> decision)
                       @@ ("feedback" :> feedback)
                       @@ ("revision_count" :> revision_count)
                       @@ ("revision_history" :> <<decision>>))
                EXCEPT !.path = "model"]

\* reviewer.py reviewer_node.  llm.ok is FALSE when the model call or the JSON
\* parsing raised; otherwise llm holds the decision and feedback it extracted
ReviewOutcomes ==
    {[ok |-> FALSE, decision |-> "", feedback |-> ""]} \cup
    [ok : {TRUE}, decision : {"approve", "reject", "REJECT", "continue"},
     feedback : {"", "add sources"}]
reviewer_node(s, llm) ==
    LET draft_report == Get(s, "draft_report", "")
        revision_count == Get(s, "revision_count", 0) + 1
        decision == IF llm.ok THEN Lower(llm.decision) ELSE "approve"
        feedback == IF llm.ok THEN llm.feedback ELSE "Error during review"
    IN  IF revision_count >= 3
        THEN [Returned(("review_status" :> "approve")
                       @@ ("feedback" :> "Max revisions reached. Finalizing report.")
                       @@ ("revision_count" :> revision_count))
                EXCEPT !.path = "forced"]
        ELSE IF FalsyStr(draft_report)
        THEN [Returned(("review_status" :> "approve")
                       @@ ("revision_count" :> revision_count))
                EXCEPT !.path = "empty_draft"]
        ELSE [Returned(("review_status" :> decision)
                       @@ ("feedback" :> feedback)
                       @@ ("revision_count" :> revision_count)
                       @@ ("revision_history" :> <<decision>>))
                EXCEPT !.path = "model"]

\* --------------------------------------------------------------- scheduler
\* One node execution of the compiled graph: the node's update is merged, the
\* outgoing edge is evaluated on the merged state, and the run halts before a
\* node of interrupt_before or at END.  An exception leaving the node ends the
\* run with the state as it was before the node.
Exec(node, r) ==
    /\ last' = ("step" :> node) @@ r
    /\ IF r.raised
       THEN /\ status' = "aborted"
            /\ UNCHANGED <<state, pc, routed>>
       ELSE LET s2 == Merge(state, r.ret)
                nxt == NextNode(node, s2)
            IN  /\ state' = s2
                /\ routed' = nxt
                /\ pc' = nxt
                /\ status' = IF nxt = END THEN "completed"
                             ELSE IF nxt \in InterruptBefore THEN "paused"
                             ELSE "running"

Ready(node) == status = "running" /\ pc = node

\* demo_graph.py run_demo, tests: the caller's initial input
InitialStates ==
    {("original_task" :> "task") @@ ("clarified_task" :> c) @@ ("clarification_answers" :> NoneVal)
        : c \in {NoneVal, "goal"}}

Init ==
    /\ state \in InitialStates
    /\ pc = "clarifier"
    /\ status = "running"
    /\ routed = NoRoute
    /\ last = ("step" :> "start") @@ Returned(EmptyUpdate)
    /\ runs = [planner |-> 0, writer |-> 0, reviewer |-> 0, resume |-> 0]
    /\ loop = [runs |-> 0, hyp |-> FALSE]

Clarifier ==
    /\ Ready("clarifier")
    /\ \E llm \in ClarifierOutcomes : Exec("clarifier", clarifier_node(state, llm))
    /\ UNCHANGED <<runs, loop>>

\* demo_graph.py run_demo, lines 74-85: the caller injects its answer into the
\* paused session and continues it
Resume ==
    /\ status = "paused"
    /\ runs.resume < MaxPauses
    /\ state' = Merge(state, "clarification_answers" :> "answers")
    /\ status' = "running"
    /\ runs' = [runs EXCEPT !.resume = @ + 1]
    /\ UNCHANGED <<pc, routed, last, loop>>

HumanResponse ==
    /\ Ready("human_response")
    /\ Exec("human_response", human_response_node(state))
    /\ UNCHANGED <<runs, loop>>

Planner ==
    /\ Ready("planner")
    /\ \E llm \in PlannerOutcomes :
          /\ Exec("planner", planner_node(state, llm))
          /\ loop' = [runs |-> 0,
                      hyp |-> /\ llm.ok
                              /\ llm.steps # <<>>
                              /\ \A i \in DOMAIN llm.steps : llm.steps[i].status = "pending"]
    /\ runs' = [runs EXCEPT !.planner = @ + 1]

Researcher ==
    /\ Ready("researcher")
    /\ \E search \in SearchOutcomes :
          LET r == researcher_node(state, search)
              hyp == loop.hyp /\ r.path = "completed"
          IN  /\ Exec("researcher", r)
              /\ loop' = [hyp |-> hyp, runs |-> IF hyp THEN loop.runs + 1 ELSE 0]
    /\ UNCHANGED runs

Analyst ==
    /\ Ready("analyst")
    /\ \E outs \in [1..(max_retries + 1) -> AttemptOutcomes], fig \in BOOLEAN :
          Exec("analyst", coder_node(state, outs, fig))
    /\ UNCHANGED <<runs, loop>>

Writer ==
    /\ Ready("writer")
    /\ \E llm \in WriterOutcomes : Exec("writer", writer_node(state, llm))
    /\ runs' = [runs EXCEPT !.writer = @ + 1]
    /\ UNCHANGED loop

Reviewer ==
    /\ Ready("reviewer")
    /\ \E llm \in ReviewOutcomes : Exec("reviewer", reviewer_node(state, llm))
    /\ runs' = [runs EXCEPT !.reviewer = @ + 1]
    /\ UNCHANGED loop

Next ==
    \/ Clarifier
    \/ Resume
    \/ HumanResponse
    \/ Planner
    \/ Researcher
    \/ Analyst
    \/ Writer
    \/ Reviewer

Spec == Init /\ [][Next]_vars

\* ------------------------------------------------ the routers as functions
\* A second specification: a router applied once to a state drawn from
\* bounded sets of the values its fields take.
MaxCount == 4       \* largest revision_count drawn

RouterPlans ==
    UNION {{[i \in 1..n |-> [NewPlanStep([id |-> i,
                                          description |-> IF i = n THEN d ELSE "summarize sources",
                                          status |-> st[i]])
                             EXCEPT !.result = ""]]
            : d \in Descriptions, st \in [1..n -> {"pending", "completed", "failed"}]}
           : n \in 0..MaxPlan}

RouterStates ==
    {("original_task" :> "task") @@ ("revision_count" :> a) @@ ("review_status" :> b)
        @@ ("plan" :> c) @@ ("raw_data_context" :> d) @@ ("last_step_success" :> e)
        : a \in 0..MaxCount,
          b \in {"", "approve", "reject", "continue"},
          c \in RouterPlans,
          d \in {<<>>, <<"ctx">>},
          e \in BOOLEAN}

RouterInit ==
    /\ state \in RouterStates
    /\ pc = "router"
    /\ status = "running"
    /\ routed = NoRoute
    /\ last = ("step" :> "start") @@ Returned(EmptyUpdate)
    /\ runs = [planner |-> 0, writer |-> 0, reviewer |-> 0, resume |-> 0]
    /\ loop = [runs |-> 0, hyp |-> FALSE]

ApplyRouteReview ==
    /\ pc = "router"
    /\ routed' = route_review(state)
    /\ pc' = "route_review"
    /\ UNCHANGED <<state, status, last, runs, loop>>

ApplyRouteResearch ==
    /\ pc = "router"
    /\ routed' = route_research_to_next(state)
    /\ pc' = "route_research_to_next"
    /\ UNCHANGED <<state, status, last, runs, loop>>

RouterNext ==
    \/ ApplyRouteReview
    \/ ApplyRouteResearch

RouterSpec == RouterInit /\ [][RouterNext]_vars

\* ------------------------------------------------- the merge as a function
\* A third specification: one partial update merged once into a state, both
\* drawn from bounded sets of AgentState fields.
MaxKeys == 2

SequenceFields ==
    {"research_findings", "raw_data_context", "code_snippets", "code_outputs",
     "figure_paths", "messages"}
MergeFields == SequenceFields \cup {"draft_report", "revision_count"}
MergeKeySets == {K \in SUBSET MergeFields : Cardinality(K) <= MaxKeys}

\* the value a field holds before the merge
OldValue(k) ==
    IF k \in SequenceFields THEN <<"a", "b">>
    ELSE IF k = "revision_count" THEN 1
    ELSE "draft"

\* the value a node returns for a field; seq is the list it returns for the
\* list-typed ones
UpdateLists == {<<>>, <<"c">>, <<"b", "a">>}
NewValue(k, seq) ==
    IF k \in SequenceFields THEN seq
    ELSE IF k = "revision_count" THEN 2
    ELSE "report"

MergeInit ==
    /\ \E K \in MergeKeySets : state = [k \in K |-> OldValue(k)]
    /\ \E K \in MergeKeySets, seq \in UpdateLists :
          last = ("step" :> "start") @@ ("old" :> EmptyUpdate)
                    @@ Returned([k \in K |-> NewValue(k, seq)])
    /\ pc = "merge"
    /\ status = "running"
    /\ routed = NoRoute
    /\ runs = [planner |-> 0, writer |-> 0, reviewer |-> 0, resume |-> 0]
    /\ loop = [runs |-> 0, hyp |-> FALSE]

ApplyMerge ==
    /\ pc = "merge"
    /\ state' = Merge(state, last.ret)
    /\ last' = [last EXCEPT !.step = "merge", !.old = state]
    /\ pc' = "merged"
    /\ UNCHANGED <<status, routed, runs, loop>>

MergeNext == ApplyMerge

MergeSpec == MergeInit /\ [][MergeNext]_vars

\* ------------------------------------------- the planner with its notes
\* A fourth specification: one planner execution over a plan whose PlanSteps
\* carry their note_id, with the note store it reads and writes.  (planner_node
\* above is this operator without the note_id field and the store.)

\* planner.py line 128: f"note_{now_str}_{step.id}"
NewNoteId(now, id) == <<now, id>>

\* old_note_map that forgets every note
old_note_map_empty(plan) == [id \in {} |-> <<>>]

\* planner.py lines 110-115: step id -> note_id over the plan read (for an id
\* that occurs twice the later PlanStep wins)
old_note_map(plan) ==
    LET with == {j \in DOMAIN plan : "note_id" \in DOMAIN plan[j]}
    IN  [id \in {plan[j].id : j \in with} |->
            LET js == {j \in with : plan[j].id = id}
            IN  plan[CHOOSE j \in js : \A k \in js : k <= j].note_id]

\* `text in content` on a content kept as its sequence of passages
Contains(content, text) == \E k \in DOMAIN content : content[k] = text

\* note_tool.py NoteTool._create_note: the file of note_id is (over)written
create_note(notes, note_id, title, content, tags) ==
    IF title = <<>> \/ content = <<>> THEN notes
    ELSE (note_id :> [title |-> title, content |-> content, tags |-> tags]) @@ notes

\* note_tool.py NoteTool._update_note (tags always given by the planner)
update_note(notes, note_id, title, content, tags) ==
    IF note_id \notin DOMAIN notes THEN notes
    ELSE [notes EXCEPT ![note_id] =
            [title |-> IF title # <<>> THEN title ELSE @.title,
             content |-> IF content # <<>> THEN content ELSE @.content,
             tags |-> tags]]

\* planner.py lines 117-224: the steps from index i on, the notes being as the
\* steps before i left them
RECURSIVE plan_steps(_, _, _, _, _)
plan_steps(steps, i, map, now, notes) ==
    IF i > Len(steps) THEN [plan |-> <<>>, notes |-> notes]
    ELSE LET step == steps[i]
             is_new_note == step.id \notin DOMAIN map
             note_id == IF is_new_note THEN NewNoteId(now, step.id) ELSE map[step.id]
             d == clean_description(step.description)
             note_title == <<"Task", step.id, d>>
             note_content == <<d, "Status: Pending">>
             update_content == <<"Revision Task", d>>
             notes2 ==
                IF is_new_note
                THEN create_note(notes, note_id, note_title, note_content, {"plan", "pending"})
                ELSE IF note_id \in DOMAIN notes
                THEN IF "completed" \in notes[note_id].tags
                     THEN IF ~Contains(notes[note_id].content, d)
                          THEN update_note(notes, note_id, <<>>, update_content,
                                           {"completed", "revision"})
                          ELSE notes
                     ELSE update_note(notes, note_id, note_title, note_content,
                                      {"plan", "pending", "updated"})
                ELSE create_note(notes, note_id, note_title, note_content, {"plan", "pending"})
             rest == plan_steps(steps, i + 1, map, now, notes2)
         IN  [plan |-> <<NewPlanStep(step) @@ ("note_id" :> note_id)>> \o rest.plan,
              notes |-> rest.notes]

\* planner.py planner_node with note ids and note store; now is the clock's
\* reading (datetime.now(), to the second), notes the store's content
planner_node_with_notes(s, llm, now, notes) ==
    IF llm.ok
    THEN LET r == plan_steps(llm.steps, 1, old_note_map(Get(s, "plan", <<>>)), now, notes)
         IN  [ret |-> ("plan" :> r.plan)
                      @@ ("current_step_index" :> 0)
                      @@ ("last_step_success" :> TRUE)
                      @@ ("revision_count" :> Get(s, "revision_count", 0) + 1),
              notes |-> r.notes]
    ELSE [ret |-> ("plan" :> <<>>)
                  @@ ("current_step_index" :> 0)
                  @@ ("last_step_success" :> FALSE)
                  @@ ("revision_count" :> Get(s, "revision_count", 0)),
          notes |-> notes]

\* PlanStep ids and the sequences of at most two of them
StepIds == {1, 2, 3}
IdSeqs == {<<>>} \cup {<<a>> : a \in StepIds} \cup {<<a, b>> : a \in StepIds, b \in StepIds}

\* readings of the clock at the earlier planner pass and at this one
OldStamps == {1, 2}
NowStamps == {2, 3}

\* a plan left by an earlier planner pass at stamp t and completed by the
\* researcher: every PlanStep carries the note_id made from t and its id
OldPlan(ids, t) ==
    [j \in DOMAIN ids |->
        [NewPlanStep([id |-> ids[j], description |-> "summarize sources", status |-> "pending"])
            EXCEPT !.status = "completed", !.result = "summary"]
        @@ ("note_id" :> NewNoteId(t, ids[j]))]

\* what the store holds for a note: no file, the note as the planner created
\* it, or the note as the researcher rewrote it (researcher.py lines 135-140)
NoteKinds == {"missing", "pending", "completed"}
NoteOfKind(kind, id) ==
    IF kind = "pending"
    THEN [title |-> <<"Task", id, "summarize sources">>,
          content |-> <<"summarize sources", "Status: Pending">>,
          tags |-> {"plan", "pending"}]
    ELSE [title |-> <<"Task", id, "summarize sources">>,
          content |-> <<"summarize sources", "summary">>,
          tags |-> {"completed", "research"}]
NoteStores(plan) ==
    LET ids == {plan[j].note_id : j \in DOMAIN plan}
    IN  {[n \in {m \in ids : kinds[m] # "missing"} |-> NoteOfKind(kinds[n], n[2])]
            : kinds \in [ids -> NoteKinds]}

\* what the planning model may return: steps with any ids, pending
RevisionDescriptions == {"summarize sources", "plot chart", "Rewrite: plot chart"}
RevisionOutputs ==
    {[ok |-> FALSE, steps |-> <<>>]} \cup
    UNION {{[ok |-> TRUE,
             steps |-> [j \in DOMAIN ids |->
                          [id |-> ids[j], description |-> ds[j], status |-> "pending"]]]
            : ds \in [DOMAIN ids -> RevisionDescriptions]}
           : ids \in IdSeqs}

PlannerInit ==
    /\ \E ids \in IdSeqs, t \in OldStamps :
          /\ state = ("original_task" :> "task") @@ ("clarified_task" :> "goal")
                        @@ ("plan" :> OldPlan(ids, t)) @@ ("revision_count" :> 2)
          /\ \E llm \in RevisionOutputs, now \in NowStamps, notes \in NoteStores(OldPlan(ids, t)) :
                last = ("step" :> "start") @@ ("llm" :> llm) @@ ("now" :> now)
                          @@ ("notes" :> notes) @@ ("old_notes" :> notes)
                          @@ ("old" :> EmptyUpdate) @@ Returned(EmptyUpdate)
    /\ pc = "planner"
    /\ status = "running"
    /\ routed = NoRoute
    /\ runs = [planner |-> 0, writer |-> 0, reviewer |-> 0, resume |-> 0]
    /\ loop = [runs |-> 0, hyp |-> FALSE]

ApplyPlanner ==
    /\ pc = "planner"
    /\ LET r == planner_node_with_notes(state, last.llm, last.now, last.notes)
       IN  /\ state' = Merge(state, r.ret)
           /\ last' = [last EXCEPT !.step = "planner", !.ret = r.ret, !.old = state,
                                   !.notes = r.notes]
    /\ pc' = "planned"
    /\ UNCHANGED <<status, routed, runs, loop>>

PlannerNext == ApplyPlanner

PlannerSpec == PlannerInit /\ [][PlannerNext]_vars

\* ------------------------------------------------ the model router singleton
\* A fifth specification: the module globals of llm/router.py and config.py.
\* Here state holds config.model_routing_mode, the ModelRouter objects created
\* so far (an object's identity is its position) and the global model_router
\* (0 for None); last holds the latest operation and the latest
\* get_model_router call.
MaxOps == 4

Modes == {"hybrid", "cloud_only"}

\* router.py TokenMonitorCallback.__init__ (total_tokens, successful_requests)
NewMonitor == [total_tokens |-> 0, successful_requests |-> 0]

\* router.py ModelRouter.__init__
ModelRouter(mode, config_mode) ==
    [mode |-> IF ~FalsyStr(mode) THEN mode ELSE config_mode,
     smart_token_monitor |-> NewMonitor,
     fast_token_monitor |-> NewMonitor]

\* router.py lines 192-201: the old monitor's counts added to the new one
AddCounts(new, old) ==
    [total_tokens |-> new.total_tokens + old.total_tokens,
     successful_requests |-> new.successful_requests + old.successful_requests]

\* get_model_router returning the existing singleton whatever its mode
get_model_router_ignores_mode(g, mode) ==
    IF g.model_router = 0
    THEN [g EXCEPT !.instances = Append(@, ModelRouter(IF ~FalsyStr(mode) THEN mode ELSE g.config, g.config)),
                   !.model_router = Len(g.instances) + 1]
    ELSE g

\* get_model_router replacing the singleton without restoring the counts
get_model_router_fresh_counts(g, mode) ==
    LET target_mode == IF ~FalsyStr(mode) THEN mode ELSE g.config
    IN  IF g.model_router = 0 \/ g.instances[g.model_router].mode # target_mode
        THEN [g EXCEPT !.instances = Append(@, ModelRouter(target_mode, g.config)),
                       !.model_router = Len(g.instances) + 1]
        ELSE g

\* router.py get_model_router: the globals after the call (the instance
\* returned is the new model_router)
get_model_router(g, mode) ==
    LET target_mode == IF ~FalsyStr(mode) THEN mode ELSE g.config
    IN  IF g.model_router # 0
        THEN IF g.instances[g.model_router].mode # target_mode
             THEN LET old == g.instances[g.model_router]
                      new == ModelRouter(target_mode, g.config)
                      restored ==
                         [new EXCEPT
                            !.smart_token_monitor = AddCounts(@, old.smart_token_monitor),
                            !.fast_token_monitor = AddCounts(@, old.fast_token_monitor)]
                  IN  [g EXCEPT !.instances = Append(@, restored),
                                !.model_router = Len(g.instances) + 1]
             ELSE g
        ELSE [g EXCEPT !.instances = Append(@, ModelRouter(target_mode, g.config)),
                       !.model_router = Len(g.instances) + 1]

\* router.py ModelRouter.get_token_usage()["total"]
TotalUsage(r) ==
    AddCounts(r.smart_token_monitor, r.fast_token_monitor)

\* router.py TokenMonitorCallback.on_llm_end; usage is the token_usage the
\* response carries: absent (or empty), or present with its total_tokens
Usages ==
    {[present |-> FALSE, total_tokens |-> 0],
     [present |-> TRUE, total_tokens |-> 0],
     [present |-> TRUE, total_tokens |-> 1]}

on_llm_end(m, usage) ==
    IF ~usage.present THEN m
    ELSE [total_tokens |-> m.total_tokens + usage.total_tokens,
          successful_requests |-> m.successful_requests + 1]

SingletonInit ==
    /\ \E c \in Modes : state = [config |-> c, instances |-> <<>>, model_router |-> 0]
    /\ last = [step |-> "start", target |-> NoneVal, returned |-> 0,
               prev_target |-> NoneVal, prev_returned |-> 0]
    /\ runs = [ops |-> 0]
    /\ pc = "singleton"
    /\ status = "running"
    /\ routed = NoRoute
    /\ loop = [runs |-> 0, hyp |-> FALSE]

Op(name) ==
    /\ pc = "singleton"
    /\ runs.ops < MaxOps
    /\ runs' = [ops |-> runs.ops + 1]
    /\ UNCHANGED <<pc, status, routed, loop>>

GetModelRouter ==
    /\ Op("get_model_router")
    /\ \E mode \in Modes \cup {NoneVal} :
          /\ state' = get_model_router(state, mode)
          /\ last' = [step |-> "get_model_router",
                      target |-> IF ~FalsyStr(mode) THEN mode ELSE state.config,
                      returned |-> state'.model_router,
                      prev_target |-> last.target,
                      prev_returned |-> last.returned]

\* tests/test_router_unified.py: config.model_routing_mode = ...
SetConfigMode ==
    /\ Op("set_config")
    /\ \E c \in Modes : state' = [state EXCEPT !.config = c]
    /\ last' = [last EXCEPT !.step = "set_config"]

\* a model of some ModelRouter created so far finishes a call
OnLlmEnd ==
    /\ Op("on_llm_end")
    /\ \E i \in DOMAIN state.instances, usage \in Usages, smart \in BOOLEAN :
          state' = IF smart
                   THEN [state EXCEPT !.instances[i].smart_token_monitor = on_llm_end(@, usage)]
                   ELSE [state EXCEPT !.instances[i].fast_token_monitor = on_llm_end(@, usage)]
    /\ last' = [last EXCEPT !.step = "on_llm_end"]

\* router.py reset_model_router
ResetModelRouter ==
    /\ Op("reset_model_router")
    /\ state' = [state EXCEPT !.model_router = 0]
    /\ last' = [last EXCEPT !.step = "reset_model_router", !.target = NoneVal, !.returned = 0]

\* router.py ModelRouter.reset_token_usage on the singleton
ResetTokenUsage ==
    /\ Op("reset_token_usage")
    /\ state.model_router # 0
    /\ state' = [state EXCEPT !.instances[state.model_router] =
                    [@ EXCEPT !.smart_token_monitor = NewMonitor,
                              !.fast_token_monitor = NewMonitor]]
    /\ last' = [last EXCEPT !.step = "reset_token_usage"]

SingletonNext ==
    \/ GetModelRouter
    \/ SetConfigMode
    \/ OnLlmEnd
    \/ ResetModelRouter
    \/ ResetTokenUsage

SingletonSpec == SingletonInit /\ [][SingletonNext]_vars

\* ------------------------------------------------- two sessions, one store
\* A sixth specification: two sessions run their planner and researcher steps
\* interleaved, on one clock and one note store (NoteTool's directory is fixed
\* under the project root).  Here state holds the two sessions' states, the
\* store and the clock, and pc each session's position.
MaxClock == 2

Sessions == {1, 2}

\* the description the planning model gives the steps of a session's task
SessionDescription(k) == IF k = 1 THEN "summarize sources" ELSE "plot chart"

\* what the planning model may return to a session: steps with any ids
SessionOutputs(k) ==
    {[ok |-> FALSE, steps |-> <<>>]} \cup
    {[ok |-> TRUE,
      steps |-> [j \in DOMAIN ids |->
                   [id |-> ids[j], description |-> SessionDescription(k), status |-> "pending"]]]
        : ids \in IdSeqs}

\* researcher.py researcher_node with the note store: on its success path the
\* step's note is updated with the summary (lines 128-140)
researcher_node_with_notes(s, search, notes) ==
    LET r == researcher_node(s, search)
        plan == Get(s, "plan", <<>>)
    IN  [ret |-> r.ret,
         notes |-> IF r.path = "completed" /\ "note_id" \in DOMAIN plan[r.idx + 1]
                   THEN update_note(notes, plan[r.idx + 1].note_id, <<>>,
                                    IF r.ret["plan"][r.idx + 1].result = "" THEN <<>> ELSE <<"summary">>,
                                    {"completed", "research"})
                   ELSE notes]

SessionsInit ==
    /\ state = [sessions |-> [k \in Sessions |->
                                ("original_task" :> "task") @@ ("clarified_task" :> "goal")],
                notes |-> [n \in {} |-> <<>>],
                now |-> 1]
    /\ pc = [k \in Sessions |-> "planner"]
    /\ last = [step |-> "start", session |-> 0]
    /\ status = "running"
    /\ routed = NoRoute
    /\ runs = [planner |-> 0, writer |-> 0, reviewer |-> 0, resume |-> 0]
    /\ loop = [runs |-> 0, hyp |-> FALSE]

\* the clock moves on to the next second
Tick ==
    /\ state.now < MaxClock
    /\ state' = [state EXCEPT !.now = @ + 1]
    /\ last' = [step |-> "tick", session |-> 0]
    /\ UNCHANGED <<pc, status, routed, runs, loop>>

SessionPlanner(k) ==
    /\ pc[k] = "planner"
    /\ \E llm \in SessionOutputs(k) :
          LET r == planner_node_with_notes(state.sessions[k], llm, state.now, state.notes)
          IN  state' = [state EXCEPT !.sessions[k] = Merge(@, r.ret), !.notes = r.notes]
    /\ pc' = [pc EXCEPT ![k] = "researcher"]
    /\ last' = [step |-> "planner", session |-> k]
    /\ UNCHANGED <<status, routed, runs, loop>>

SessionResearcher(k) ==
    /\ pc[k] = "researcher"
    /\ Get(state.sessions[k], "current_step_index", 0) < Len(Get(state.sessions[k], "plan", <<>>))
    /\ \E search \in SearchOutcomes :
          LET r == researcher_node_with_notes(state.sessions[k], search, state.notes)
          IN  state' = [state EXCEPT !.sessions[k] = Merge(@, r.ret), !.notes = r.notes]
    /\ last' = [step |-> "researcher", session |-> k]
    /\ UNCHANGED <<pc, status, routed, runs, loop>>

SessionsNext ==
    \/ Tick
    \/ \E k \in Sessions : SessionPlanner(k)
    \/ \E k \in Sessions : SessionResearcher(k)

SessionsSpec == SessionsInit /\ [][SessionsNext]_vars

\* ------------------------------------------------------------------ claims
Plan == Get(state, "plan", <<>>)
RevisionCount == Get(state, "revision_count", 0)
ReviewStatus == Get(state, "review_status", NoneVal)

\* C1: in one session the planner executes at most 3 times, whatever the
\* reviewer decides and whether or not the planning passes succeed.
C1_PlannerAtMostThree == runs.planner <= 3

\* a session that ended after three planner executions
C1_Witness == status = "completed" /\ runs.planner = 3

\* C2: route_review returns 'end' whenever revision_count >= 3 or
\* review_status = 'approve', whatever the other fields hold.
C2_EndAtCapOrApprove ==
    (pc = "route_review" /\ (RevisionCount >= 3 \/ ReviewStatus = "approve"))
        => routed = "end"

\* the cap reached with a rejecting review
C2_Witness ==
    pc = "route_review" /\ RevisionCount = 3 /\ ReviewStatus = "reject" /\ routed = "end"

\* C3 as stated: route_review returns 'planner' only when revision_count < 3
\* and review_status is exactly 'reject'.
C3_PlannerOnlyOnReject ==
    (pc = "route_review" /\ routed = "planner")
        => (RevisionCount < 3 /\ ReviewStatus = "reject")

\* C3 amended: route_review returns 'planner' exactly when revision_count < 3
\* and review_status is not 'approve' (a reject, but also an empty, 'continue'
\* or other status).
C3_PlannerUnlessApprove ==
    pc = "route_review"
        => (routed = "planner" <=> (RevisionCount < 3 /\ ReviewStatus # "approve"))

\* a status that is neither approve nor reject, routed back to the planner
C3_Witness ==
    pc = "route_review" /\ ReviewStatus = "continue" /\ routed = "planner"

\* C4: when the reviewer rejects with feedback text and the session goes back
\* to the planner, the state the planner reads holds that feedback in
\* review_comments.
C4_FeedbackCarried ==
    (/\ last.step = "reviewer"
     /\ pc = "planner"
     /\ "feedback" \in DOMAIN last.ret
     /\ last.ret["feedback"] # "")
        => Get(state, "review_comments", "") = last.ret["feedback"]

\* C5: after the researcher, route_research_to_next returns 'researcher'
\* exactly when some PlanStep is 'pending'; with every PlanStep 'completed' or
\* 'failed' it returns 'analyst' or 'writer'.
C5_LoopWhilePending ==
    (last.step = "researcher" /\ ~last.raised)
        => (routed = "researcher" <=> \E i \in DOMAIN Plan : Plan[i].status = "pending")

\* C6: after a planner pass that planned n >= 1 pending PlanSteps, while every
\* researcher execution completes one PlanStep, the k-th execution works on
\* index k-1 and leaves the pointer at k, the router returns to the researcher
\* while k < n and leaves the research loop when k = n.
C6_ExactlyNPasses ==
    loop.hyp =>
        /\ loop.runs <= Len(Plan)
        /\ Get(state, "current_step_index", 0) = loop.runs
        /\ last.step = "researcher" =>
              /\ last.idx = loop.runs - 1
              /\ routed = "researcher" <=> loop.runs < Len(Plan)
              /\ routed # "researcher" => \A i \in DOMAIN Plan : Plan[i].status = "completed"

\* the research loop left after exactly two executions on a two-step plan
C6_Witness ==
    /\ loop.hyp
    /\ Len(Plan) = 2
    /\ loop.runs = 2
    /\ last.step = "researcher"
    /\ pc \in {"analyst", "writer"}

\* C7: whenever the router sends control back to the researcher, the step
\* pointer has advanced past the index the researcher just worked on.
C7_PointerAdvances ==
    (last.step = "researcher" /\ ~last.raised /\ routed = "researcher")
        => Get(state, "current_step_index", 0) > last.idx

PlanIds(s) == [i \in DOMAIN Get(s, "plan", <<>>) |-> Get(s, "plan", <<>>)[i].id]

\* C8: the researcher and the analyst never change the length of plan nor the
\* sequence of PlanStep ids; only a planner execution changes them.
C8_PlanFixedOutsidePlanner ==
    [][/\ pc \in {"researcher", "analyst"} => PlanIds(state') = PlanIds(state)
       /\ PlanIds(state') # PlanIds(state) => (pc = "planner" /\ last'.step = "planner")]_vars

\* an analyst execution that returned failure on a two-step plan
C8_Witness ==
    /\ last.step = "analyst"
    /\ ~last.raised
    /\ ~Get(state, "last_step_success", TRUE)
    /\ Len(Plan) = 2

AllMarker(outs) ==
    Len(outs) = 3 /\ \A i \in DOMAIN outs : outs[i] = "marker"

C10_InferenceFailureAbsorbed ==
    (last.step = "analyst" /\ \E i \in DOMAIN last.outcomes : last.outcomes[i] = "llm_raise")
        => (~last.raised /\ status # "aborted")

\* C11: when the clarifier finishes with clarified_task still empty, having
\* returned only clarification_questions, the session is paused before
\* human_response: the paused state holds a non-empty clarification_questions,
\* the pending node is human_response, and no planner, researcher, analyst,
\* writer or reviewer has executed.
C11_PauseWithQuestions ==
    (/\ last.step = "clarifier"
     /\ ~last.raised
     /\ "clarification_questions" \in DOMAIN last.ret
     /\ runs.resume = 0)
        => /\ status = "paused"
           /\ pc = "human_response"
           /\ Get(state, "clarification_questions", <<>>) # <<>>
           /\ runs.planner = 0 /\ runs.writer = 0 /\ runs.reviewer = 0
           /\ ~("plan" \in DOMAIN state)

\* C12: after a pause before human_response, a resume with a non-empty
\* clarification_answers runs human_response and then the clarifier again;
\* when that clarifier execution returns, the state holds a non-empty
\* clarified_task and the router goes on to the planner instead of pausing
\* again.
C12_ResumeReachesPlanner ==
    /\ (last.step = "human_response" /\ ~last.raised) => pc = "clarifier"
    /\ (/\ last.step = "clarifier"
        /\ ~last.raised
        /\ runs.resume > 0
        /\ "clarified_task" \in DOMAIN last.ret)
           => /\ ~FalsyStr(Get(state, "clarified_task", NoneVal))
              /\ pc = "planner"
              /\ status = "running"

\* C13: in a session whose one planning pass planned 2 pending PlanSteps,
\* whose researcher completed one PlanStep per pass and whose review approved,
\* the research loop took two passes, the writer and the reviewer each
\* executed exactly once and the session is completed at END.
C13_LinearRunOnce ==
    (/\ loop.hyp
     /\ Len(Plan) = 2
     /\ runs.planner = 1
     /\ last.step = "reviewer"
     /\ ~last.raised
     /\ ReviewStatus = "approve")
        => /\ loop.runs = 2
           /\ runs.writer = 1
           /\ runs.reviewer = 1
           /\ pc = END
           /\ status = "completed"

\* the linear run, ended by the review model's own approval of a draft
C13_Witness ==
    /\ loop.hyp
    /\ Len(Plan) = 2
    /\ loop.runs = 2
    /\ runs.planner = 1
    /\ runs.writer = 1
    /\ runs.reviewer = 1
    /\ last.step = "reviewer"
    /\ last.path = "model"
    /\ ReviewStatus = "approve"
    /\ status = "completed"

C17_OneRevisionRound ==
    (/\ last.step = "reviewer"
     /\ ~last.raised
     /\ runs.reviewer = 2
     /\ ReviewStatus = "approve")
        => /\ runs.planner = 2
           /\ runs.writer = 2
           /\ status = "completed"
           /\ pc = END
           /\ "draft_report" \in DOMAIN state
           /\ state["draft_report"] # NoneVal

\* a rejected first draft, a second plan of two steps, a second draft and the
\* approval that ends the session
C17_Witness ==
    /\ last.step = "reviewer"
    /\ runs.reviewer = 2
    /\ runs.planner = 2
    /\ runs.writer = 2
    /\ Len(Plan) = 2
    /\ ReviewStatus = "approve"
    /\ Get(state, "draft_report", "") = "report"
    /\ status = "completed"

\* C18: whenever a session has reached END, review_status is 'approve', also
\* when the revision cap and not the review's own verdict ended it.
C18_EndMeansApproved ==
    (status = "completed" \/ pc = END) => ReviewStatus = "approve"

\* a session ended by the cap: the reviewer found revision_count + 1 >= 3
C18_Witness ==
    /\ status = "completed"
    /\ last.step = "reviewer"
    /\ last.path = "forced"
    /\ RevisionCount >= 3
    /\ ReviewStatus = "approve"

\* C19: a session that has left clarification (clarified_task set) reaches
\* END whatever the collaborators return, because none of its loops can go on
\* forever.  As a property of single states: the analysis retry loop makes at
\* most max_retries + 1 sandbox calls, the revision loop re-enters the planner
\* only below the revision cap, and no researcher execution hands the session
\* back to the researcher with the state exactly as it found it (a pass that
\* changes nothing repeats without end when the collaborator answers the same).
C19_EveryLoopProgresses ==
    ~FalsyStr(Get(state, "clarified_task", NoneVal)) =>
        /\ last.step = "analyst" => last.calls <= max_retries + 1
        /\ (last.step = "reviewer" /\ routed = "planner") => RevisionCount < 3
        /\ Ready("researcher") =>
              \A search \in SearchOutcomes :
                 LET r == researcher_node(state, search)
                 IN  ~r.raised =>
                        ~(/\ Merge(state, r.ret) = state
                          /\ NextNode("researcher", Merge(state, r.ret)) = "researcher")

\* C20: when the search for the current PlanStep fails inside the researcher,
\* the researcher marks that PlanStep 'failed' and the session goes on past
\* it: the next researcher pass works on a later PlanStep, and after the last
\* PlanStep the research loop is left for the analyst or the writer.
C20_FailedStepSkipped ==
    (last.step = "researcher" /\ last.path = "search_failed")
        => /\ Plan[last.idx + 1].status = "failed"
           /\ status = "running"
           /\ IF last.idx + 1 < Len(Plan)
              THEN pc = "researcher" /\ Get(state, "current_step_index", 0) > last.idx
              ELSE pc \in {"analyst", "writer"}

C22_StatusSetByResearchOnly ==
    /\ Ready("planner") =>
          \A llm \in PlannerOutcomes :
             LET new == planner_node(state, llm).ret["plan"]
             IN  \A i \in DOMAIN new :
                    new[i].status \in {"completed", "failed"} =>
                       \E j \in DOMAIN Plan :
                          Plan[j].id = new[i].id /\ Plan[j].status = new[i].status
    /\ last.step \in {"writer", "reviewer"} => "plan" \notin DOMAIN last.ret

\* C23: when the planner runs over a non-empty plan (a revision pass), a
\* PlanStep that was completed and is returned by the planning model under
\* the same id, still as completed, keeps its completed work in the new plan:
\* its status and its result.
C23_CompletedWorkKept ==
    (Ready("planner") /\ Plan # <<>>) =>
        \A llm \in PlannerOutcomes :
           LET new == planner_node(state, llm).ret["plan"]
           IN  \A i \in DOMAIN new, j \in DOMAIN Plan :
                  (/\ llm.ok
                   /\ new[i].id = Plan[j].id
                   /\ Plan[j].status = "completed"
                   /\ llm.steps[i].status = "completed")
                      => /\ new[i].status = "completed"
                         /\ new[i].result = Plan[j].result

\* C24: on a planner pass over an existing plan, every new PlanStep whose id
\* is the id of an existing PlanStep with a note_id receives that note_id, and
\* every new PlanStep whose id is not in the existing plan receives a note_id
\* different from all existing note_ids.
C24_NoteIdReuse ==
    (pc = "planned" /\ last.llm.ok) =>
        LET old == Get(last.old, "plan", <<>>)
        IN  \A i \in DOMAIN Plan :
               /\ \A j \in DOMAIN old :
                     (old[j].id = Plan[i].id /\ "note_id" \in DOMAIN old[j])
                        => Plan[i].note_id = old[j].note_id
               /\ (\A j \in DOMAIN old : old[j].id # Plan[i].id)
                     => \A j \in DOMAIN old : Plan[i].note_id # old[j].note_id

\* a revision that keeps step 1 and adds step 2, planned in the same second
\* as the plan it replaces
C24_Witness ==
    /\ pc = "planned"
    /\ last.now = 2
    /\ Len(last.old["plan"]) = 1
    /\ last.old["plan"][1].note_id = <<2, 1>>
    /\ Len(Plan) = 2
    /\ Plan[1].id = 1 /\ Plan[1].note_id = <<2, 1>>
    /\ Plan[2].id = 2 /\ Plan[2].note_id = <<2, 2>>

\* C25: get_model_router returns the same ModelRouter instance on successive
\* calls while the target mode (the argument if given, else
\* config.model_routing_mode) is unchanged, and after any call the returned
\* instance's mode is that call's target mode.
C25_SingletonPerMode ==
    last.step = "get_model_router" =>
        /\ last.returned # 0
        /\ last.returned = state.model_router
        /\ state.instances[last.returned].mode = last.target
        /\ (last.prev_returned # 0 /\ last.prev_target = last.target)
              => last.returned = last.prev_returned

\* two successive calls with the same target mode, after a mode change had
\* replaced the first instance
C25_Witness ==
    /\ last.step = "get_model_router"
    /\ last.prev_target = last.target
    /\ last.prev_returned = 2
    /\ last.returned = 2
    /\ state.instances[1].mode # state.instances[2].mode

\* C26: when a mode change makes get_model_router replace the singleton, the
\* new instance's smart and fast counters start at the old instance's values;
\* so no step other than reset_model_router and reset_token_usage lowers the
\* total token count or the total request count the singleton reports.
C26_CountsCarriedOver ==
    [][(/\ state.model_router # 0
        /\ state'.model_router # 0
        /\ last'.step \notin {"reset_model_router", "reset_token_usage"})
          => LET old == state.instances[state.model_router]
                 new == state'.instances[state'.model_router]
             IN  /\ TotalUsage(new).total_tokens >= TotalUsage(old).total_tokens
                 /\ TotalUsage(new).successful_requests >= TotalUsage(old).successful_requests
                 /\ state'.model_router # state.model_router
                       => /\ new.smart_token_monitor = old.smart_token_monitor
                          /\ new.fast_token_monitor = old.fast_token_monitor]_vars

\* a second instance, made by a mode change, that reports the tokens and the
\* requests counted by the first
C26_Witness ==
    /\ last.step = "get_model_router"
    /\ state.model_router = 2
    /\ state.instances[2].mode # state.instances[1].mode
    /\ state.instances[1].smart_token_monitor.total_tokens = 1
    /\ TotalUsage(state.instances[2]).total_tokens = 1
    /\ TotalUsage(state.instances[2]).successful_requests = 1

\* C27: the analyst attaches its artifacts (generated_code, figure_path,
\* analysis result) to the PlanStep at index current_step_index - 1, the
\* PlanStep the researcher completed most recently.
C27_ArtifactsOnLatestStep ==
    (last.step = "analyst" /\ ~last.raised) =>
        last.idx = Get(state, "current_step_index", 0) - 1

\* C28: code_snippets keeps every snippet attempted: an analyst execution
\* that made k attempts (1 <= k <= 3) returns the k snippets, in attempt
\* order, to be appended to code_snippets.
C28_EverySnippetKept ==
    (last.step = "analyst" /\ ~last.raised) =>
        last.ret["code_snippets"] = [a \in 1..last.calls |-> CodeText(a - 1)]

\* C29: when a revision pass touches a PlanStep whose note is tagged
\* 'completed' and whose description changed (the note does not hold it), the
\* note keeps its original content with the revision text added after it, and
\* keeps the 'completed' tag.  (Stated for a note that one returned step
\* touches.)
C29_CompletedNoteAppended ==
    (pc = "planned" /\ last.llm.ok) =>
        LET map == old_note_map(Get(last.old, "plan", <<>>))
            steps == last.llm.steps
        IN  \A j \in DOMAIN steps :
               LET id == steps[j].id
                   d == clean_description(steps[j].description)
               IN  (/\ id \in DOMAIN map
                    /\ \A k \in DOMAIN steps : steps[k].id = id => k = j
                    /\ map[id] \in DOMAIN last.old_notes
                    /\ "completed" \in last.old_notes[map[id]].tags
                    /\ ~Contains(last.old_notes[map[id]].content, d))
                   => /\ last.notes[map[id]].content
                           = last.old_notes[map[id]].content \o <<"Revision Task", d>>
                      /\ "completed" \in last.notes[map[id]].tags

\* C30: a planner execution never lets an error out; when its model call,
\* its parsing or a note operation raised it returns plan = [],
\* current_step_index = 0, last_step_success = false and the revision_count
\* it read, and the session goes on: the researcher returns on the empty
\* plan and hands over to the writer, the writer (its own model call
\* answering) hands over to the reviewer, and the reviewer returns.
C30_PlannerFailureAbsorbed ==
    [][/\ Ready("planner") =>
            /\ ~last'.raised
            /\ status' = "running"
            /\ pc' = "researcher"
            /\ last'.path = "fallback" =>
                  /\ last'.ret = ("plan" :> <<>>) @@ ("current_step_index" :> 0)
                                   @@ ("last_step_success" :> FALSE)
                                   @@ ("revision_count" :> Get(state, "revision_count", 0))
                  /\ Get(state', "plan", NoneVal) = <<>>
                  /\ Get(state', "revision_count", 0) = Get(state, "revision_count", 0)
       /\ (Ready("researcher") /\ Plan = <<>>) =>
            /\ ~last'.raised
            /\ status' = "running"
            /\ pc' = "writer"
       /\ (Ready("writer") /\ Plan = <<>> /\ ~last'.raised) =>
            /\ status' = "running"
            /\ pc' = "reviewer"
       /\ (Ready("reviewer") /\ Plan = <<>>) =>
            /\ ~last'.raised
            /\ status' # "aborted"]_vars

\* the only planner pass failed (revision_count still 0) and the session has
\* passed the researcher and the writer and stands before the reviewer
C30_Witness ==
    /\ last.step = "writer"
    /\ pc = "reviewer"
    /\ status = "running"
    /\ runs.planner = 1
    /\ Plan = <<>>
    /\ Get(state, "revision_count", 0) = 0
    /\ Get(state, "last_step_success", TRUE) = FALSE

\* C31: every reviewer execution returns, and raises revision_count by exactly
\* 1, on each of its return paths: forced approval at the cap, approval of an
\* empty draft, the model's decision, and the model's failure defaulting to
\* approve.
C31_ReviewerAddsOne ==
    [][Ready("reviewer") =>
          /\ ~last'.raised
          /\ last'.path \in {"forced", "empty_draft", "model"}
          /\ last'.ret["revision_count"] = Get(state, "revision_count", 0) + 1
          /\ Get(state', "revision_count", 0) = Get(state, "revision_count", 0) + 1]_vars

\* a reviewer execution whose model call failed: approve by default, and the
\* count one above the planner's
C31_Witness ==
    /\ last.step = "reviewer"
    /\ last.path = "model"
    /\ last.ret["feedback"] = "Error during review"
    /\ Get(state, "review_status", NoneVal) = "approve"
    /\ Get(state, "revision_count", 0) = 2

\* C32: planner_node raises revision_count only when it re-plans after a
\* rejection, that is when it was entered with a non-empty plan; the first
\* planning pass of a session leaves revision_count as it was.
C32_FirstPassKeepsCount ==
    [][(Ready("planner") /\ Plan = <<>>) =>
          Get(state', "revision_count", 0) = Get(state, "revision_count", 0)]_vars

\* C33: the graph definition is valid and routing never fails: every edge
\* target is a declared step or END, no step has both a static and a
\* conditional outgoing edge, every declared step has an outgoing edge, and in
\* every reachable state each router returns a key of its candidate mapping;
\* the step taken next is the one the mapping gives for that key.
C33_RoutingNeverFails ==
    /\ \A n \in DOMAIN StaticEdges : StaticEdges[n] \in Nodes \cup {END}
    /\ \A n \in DOMAIN ConditionalEdges :
          \A k \in DOMAIN ConditionalEdges[n] : ConditionalEdges[n][k] \in Nodes \cup {END}
    /\ DOMAIN StaticEdges \cap DOMAIN ConditionalEdges = {}
    /\ (DOMAIN StaticEdges \cup DOMAIN ConditionalEdges) \ {"START"} = Nodes
    /\ \A n \in DOMAIN ConditionalEdges : RouterKey(n, state) \in DOMAIN ConditionalEdges[n]
    /\ (last.step \in DOMAIN ConditionalEdges /\ ~last.raised)
          => /\ RouterKey(last.step, state) \in DOMAIN ConditionalEdges[last.step]
             /\ routed = ConditionalEdges[last.step][RouterKey(last.step, state)]
    /\ (last.step \in DOMAIN StaticEdges /\ ~last.raised)
          => routed = StaticEdges[last.step]

\* the researcher's router has sent control back to the researcher
C33_Witness ==
    /\ last.step = "researcher"
    /\ ~last.raised
    /\ RouterKey("researcher", state) = "researcher"
    /\ routed = "researcher"
    /\ pc = "researcher"

\* C34: in every state after a planner pass 0 <= current_step_index <=
\* len(plan) and every PlanStep at an index below current_step_index has
\* status 'completed'; so the researcher takes its out-of-bounds branch only
\* on an empty plan.
C34_PointerWithinPlan ==
    /\ runs.planner > 0 =>
          LET current_step_index == Get(state, "current_step_index", 0 - 1)
          IN  /\ 0 <= current_step_index
              /\ current_step_index <= Len(Plan)
              /\ \A i \in DOMAIN Plan : i - 1 < current_step_index => Plan[i].status = "completed"
    /\ (last.step = "researcher" /\ last.path = "bounds") => Plan = <<>>

\* the researcher has completed the last of two PlanSteps: the pointer stands
\* at len(plan)
C34_Witness ==
    /\ last.step = "researcher"
    /\ last.path = "completed"
    /\ Len(Plan) = 2
    /\ Get(state, "current_step_index", 0) = 2
    /\ \A i \in DOMAIN Plan : Plan[i].status = "completed"

\* C35: whenever the writer starts, current_step_index equals len(plan):
\* every PlanStep of the plan has been processed by a researcher execution
\* since the last planner pass.
C35_WriterAfterWholePlan ==
    Ready("writer") => Get(state, "current_step_index", 0) = Len(Plan)

\* C36: whenever the writer runs inside the graph every PlanStep of the plan
\* has status 'completed' (vacuously for an empty plan), so the writer stores
\* its generated text as draft_report, never None.
C36_WriterSeesCompletedPlan ==
    /\ Ready("writer") => \A i \in DOMAIN Plan : Plan[i].status = "completed"
    /\ (last.step = "writer" /\ ~last.raised) =>
          /\ \A i \in DOMAIN Plan : Plan[i].status = "completed"
          /\ last.ret["draft_report"] # NoneVal
          /\ last.ret["draft_report"] = last.ret["running_summary"]
          /\ Get(state, "draft_report", NoneVal) = last.ret["running_summary"]

\* the writer has drafted a report after the analyst worked on a two-step plan
C36_Witness ==
    /\ last.step = "writer"
    /\ ~last.raised
    /\ Len(Plan) = 2
    /\ \E i \in DOMAIN Plan : Plan[i].generated_code # NoneVal
    /\ Get(state, "draft_report", NoneVal) = "report"

\* C37: the analyst is never started with an empty plan, and the index it
\* computes, max(current_step_index - 2, 0), is an index of plan, so
\* plan[step_idx] raises no index error in any reachable state.
C37_AnalystIndexValid ==
    /\ Ready("analyst") =>
          LET current_step_index == Get(state, "current_step_index", 0)
              step_idx == IF current_step_index - 2 < 0 THEN 0 ELSE current_step_index - 2
          IN  /\ Plan # <<>>
              /\ step_idx + 1 \in DOMAIN Plan
    /\ last.step = "analyst" =>
          /\ Plan # <<>>
          /\ last.idx + 1 \in DOMAIN Plan

\* the analyst has worked on a one-step plan: current_step_index - 2 is
\* negative and the index falls back to 0
C37_Witness ==
    /\ last.step = "analyst"
    /\ ~last.raised
    /\ Len(Plan) = 1
    /\ Get(state, "current_step_index", 0) = 1
    /\ last.idx = 0

C39_SessionsNotesApart ==
    pc = [k \in Sessions |-> "researcher"] =>
        LET plan(k) == Get(state.sessions[k], "plan", <<>>)
        IN  /\ \A i \in DOMAIN plan(1), j \in DOMAIN plan(2) :
                  plan(1)[i].note_id # plan(2)[j].note_id
            /\ \A k \in Sessions : \A i \in DOMAIN plan(k) :
                  plan(k)[i].note_id \in DOMAIN state.notes
                     => state.notes[plan(k)[i].note_id].title[3] = SessionDescription(k)

\* C40: in a session where every planner pass succeeded (revision_count is
\* the number of planner plus reviewer executions), the first draft was
\* non-empty and the review model answered 'reject', the planner runs a
\* second time and the second reviewer execution finds revision_count + 1 >=
\* 3 and forces 'approve' without consulting the model: the planner and the
\* reviewer execute exactly 2 times each.
C40_TwoRoundsThenForced ==
    RevisionCount = runs.planner + runs.reviewer =>
        /\ runs.planner <= 2
        /\ runs.reviewer <= 2
        /\ (/\ last.step = "reviewer"
            /\ runs.reviewer = 1
            /\ last.path = "model"
            /\ ReviewStatus = "reject")
              => /\ pc = "planner"
                 /\ status = "running"
                 /\ RevisionCount = 2
        /\ (last.step = "reviewer" /\ runs.reviewer = 2)
              => /\ runs.planner = 2
                 /\ last.path = "forced"
                 /\ ReviewStatus = "approve"
                 /\ RevisionCount = 4
                 /\ status = "completed"
                 /\ pc = END

\* two successful planner passes, a rejected draft in between, and the second
\* reviewer execution ending the session by the cap
C40_Witness ==
    /\ RevisionCount = runs.planner + runs.reviewer
    /\ runs.planner = 2
    /\ runs.reviewer = 2
    /\ runs.writer = 2
    /\ last.step = "reviewer"
    /\ last.path = "forced"
    /\ Get(state, "draft_report", "") = "report"
    /\ status = "completed"

====
